---- MODULE Spec2Model ----
(***************************************************************************)
(* A model of the Tibetan Wisdom API (src/main.py): the record store built *)
(* at import time, the FastAPI request pipeline (parameter validation,     *)
(* then the slowapi limiter wrapped around each handler, then the handler  *)
(* body) and the ten route handlers.                                       *)
(*                                                                         *)
(* Strings are sequences of one-character strings, so that str.lower(),    *)
(* the `in` substring test and == are computed and not assumed.  An        *)
(* optional query parameter is <<>> when absent and <<v>> when given.      *)
(***************************************************************************)
EXTENDS Integers, Sequences, FiniteSets, Bags, TLC

VARIABLES
    proc,         \* "boot" | "serving" | "crashed": the import of main.py
    source,       \* the data file tibetan_quotes_collection.json as found at start
    wisdom_data,  \* main.py:82  the ordered record list
    categories,   \* main.py:89  distinct categories
    authors,      \* main.py:90  distinct authors
    sources,      \* main.py:91  distinct sources
    storage,      \* limiter counters, one per (remote address, request path)
    expirations,  \* limiter window ends, one per (remote address, request path)
    now,          \* the clock read by the limiter, in seconds
    inflight,     \* the bag of requests being served
    mix,          \* the (address, path) pairs the clients of this run send to
    seen          \* per (address, endpoint class): the decisions of its current window

vars == <<proc, source, wisdom_data, categories, authors, sources,
          storage, expirations, now, inflight, mix, seen>>

(***************************************************************************)
(* Bounds of the model.                                                    *)
(***************************************************************************)
MaxRecords == 3     \* records in the data file
MaxPage == 3        \* page numbers 0..MaxPage are requested, and BigPage
MaxPerPage == 2     \* per_page 0..MaxPerPage are requested, and the limits
BigPage == 1000     \* a very large page number
MaxTicks == 2       \* the clock advances at most MaxTicks half windows
MaxOver == 2        \* requests sent to a counter beyond its limit
MaxInflight == 2    \* concurrent requests

(***************************************************************************)
(* Program constants.                                                      *)
(***************************************************************************)
LimitLanding == 30
LimitInfo == 10
LimitRandom == 30
LimitListing == 20
LimitSearch == 15
LimitCategories == 10
LimitAuthors == 10
LimitSources == 10
LimitById == 30
LimitHealth == 5
WindowSeconds == 60
DefaultPage == 1
DefaultPerPage == 10
MaxPerPageList == 100
MaxPerPageSearch == 50
RetryAfter == 60

----------------------------------------------------------------------------
(***************************************************************************)
(* Strings.                                                                *)
(***************************************************************************)
\* str.lower() on one character
LowerChar(ch) ==
    CASE ch = "A" -> "a"
      [] ch = "B" -> "b"
      [] ch = "C" -> "c"
      [] OTHER -> ch

\* str.lower()
Lower(s) == [i \in 1..Len(s) |-> LowerChar(s[i])]

\* Python's `needle in hay` on strings
Contains(needle, hay) ==
    \E i \in 0..(Len(hay) - Len(needle)) :
        SubSeq(hay, i + 1, i + Len(needle)) = needle

\* the code point of a character, for sorted()
Ord(ch) ==
    CASE ch = "A" -> 65
      [] ch = "B" -> 66
      [] ch = "C" -> 67
      [] ch = "a" -> 97
      [] ch = "b" -> 98
      [] OTHER -> 99

\* Python's s < t on strings
RECURSIVE StrLess(_, _)
StrLess(s, t) ==
    IF s = <<>> THEN t # <<>>
    ELSE IF t = <<>> THEN FALSE
    ELSE IF s[1] # t[1] THEN Ord(s[1]) < Ord(t[1])
    ELSE StrLess(Tail(s), Tail(t))

\* sorted(set of strings)
RECURSIVE Sorted(_)
Sorted(S) ==
    IF S = {} THEN <<>>
    ELSE LET m == CHOOSE x \in S : \A y \in S \ {x} : StrLess(x, y)
         IN <<m>> \o Sorted(S \ {m})

None == <<>>
Some(v) == <<v>>

\* Truthy with only None taken as not given
Truthy_NoneOnly(opt) == opt # None

\* Python truthiness of an Optional[str] argument: None and "" are falsy
Truthy(opt) == opt # None /\ opt[1] # <<>>

----------------------------------------------------------------------------
(***************************************************************************)
(* The data file and the record store (main.py:78-91).                     *)
(***************************************************************************)
Fields == {"id", "text", "author", "source", "category", "language"}

Rec(i, t, a, s, c, l) ==
    [id |-> i, text |-> t, author |-> a, source |-> s, category |-> c,
     language |-> l]

\* The records a data file is made of.  R1 and R3 carry the same id: the
\* loader does not look at ids.
R0 == Rec(0, <<"a", "b">>, <<"A">>, <<"b">>, <<"c">>, "en")
R1 == Rec(1, <<"B">>, <<"a", "b">>, <<"A">>, <<"a", "C">>, "en")
R2 == Rec(2, <<"a">>, <<"b">>, <<"B", "a">>, <<"C">>, "bo")
R3 == Rec(1, <<"c">>, <<"B">>, <<"c">>, <<"c">>, "en")
RecordPool == {R0, R1, R2, R3}

\* a record without "category": the comprehension of main.py:89 raises on it
NoCategory == [id |-> 3, text |-> <<"a">>, author |-> <<"b">>,
               source |-> <<"c">>, language |-> "en"]

\* records without "language", without "text" and without "id": the import
\* does not read these fields
NoLanguage == [id |-> 3, text |-> <<"a">>, author |-> <<"b">>,
               source |-> <<"c">>, category |-> <<"c">>]
NoText == [id |-> 3, author |-> <<"b">>, source |-> <<"c">>,
           category |-> <<"c">>, language |-> "en"]
NoIdent == [text |-> <<"a">>, author |-> <<"b">>, source |-> <<"c">>,
            category |-> <<"c">>, language |-> "en"]

RECURSIVE SeqsUpTo(_, _)
SeqsUpTo(S, n) ==
    IF n = 0 THEN {<<>>}
    ELSE LET shorter == SeqsUpTo(S, n - 1)
         IN shorter \cup {Append(q, x) : q \in {r \in shorter : Len(r) = n - 1}, x \in S}

Absent == [kind |-> "absent", quotes |-> <<>>]
Unparsable == [kind |-> "unparsable", quotes |-> <<>>]
Document(quotes) == [kind |-> "document", quotes |-> quotes]

\* a store of three records with ids 0, 1, 2 in load order
DemoStore == <<R0, R1, R2>>

AllSources ==
    {Absent, Unparsable, Document(<<R0, NoCategory>>)}
        \cup {Document(q) : q \in SeqsUpTo(RecordPool, MaxRecords)}

\* data files with a record that lacks one of the six fields
MalformedSources ==
    {Document(<<R0, NoLanguage>>), Document(<<R0, NoText>>),
     Document(<<NoIdent, R1>>), Document(<<R0, NoCategory>>)}

FewSources == {Unparsable, Document(<<R0, NoCategory>>), Document(DemoStore)}

Range(q) == {q[i] : i \in 1..Len(q)}

\* main.py:79-91, the outcome of importing the module on data file src:
\* FileNotFoundError alone is caught; a JSON error or a record without one
\* of the three indexed fields ends the import
LoadCrashes(src) ==
    \/ src.kind = "unparsable"
    \/ /\ src.kind = "document"
       /\ \E w \in Range(src.quotes) :
              ~ ({"category", "author", "source"} \subseteq DOMAIN w)

LoadedData(src) == IF src.kind = "absent" THEN <<>> ELSE src.quotes

\* Wisdom(**w): the pydantic model built from a stored record
WisdomOf(w) ==
    [id |-> w.id, text |-> w.text, author |-> w.author, source |-> w.source,
     category |-> w.category, language |-> w.language]

\* Wisdom(**w) raises ValidationError when a field is missing
Raises(w) == ~ (Fields \subseteq DOMAIN w)

SeqMap(Op(_), q) == [i \in 1..Len(q) |-> Op(q[i])]

Min(a, b) == IF a < b THEN a ELSE b
Max(a, b) == IF a > b THEN a ELSE b

\* Python's q[a:b]
PySlice(q, a, b) ==
    LET n == Len(q)
        lo == IF a < 0 THEN Max(a + n, 0) ELSE Min(a, n)
        hi == IF b < 0 THEN Max(b + n, 0) ELSE Min(b, n)
    IN SubSeq(q, lo + 1, hi)

----------------------------------------------------------------------------
(***************************************************************************)
(* Responses.  One shape for every route; a field a route does not return  *)
(* is empty.                                                               *)
(***************************************************************************)
NoResponse ==
    [status |-> 0, wisdom |-> <<>>, total |-> 0, page |-> 0, per_page |-> 0,
     names |-> <<>>, categories |-> {}, authors |-> {}, detail |-> "",
     available_categories |-> 0, available_authors |-> 0,
     limit |-> 0, retry_after |-> "", retry_after_header |-> 0]

\* raise HTTPException(status_code=st, detail=det)
HttpError(st, det) == [NoResponse EXCEPT !.status = st, !.detail = det]

\* an exception that leaves a handler: FastAPI answers 500
ServerError == HttpError(500, "Internal Server Error")

\* PageOf with the slice starting one page late
PageOf_LatePage(filtered, page, per_page) ==
    LET start_idx == page * per_page
        end_idx == start_idx + per_page
        paginated_wisdom == PySlice(filtered, start_idx, end_idx)
    IN [NoResponse EXCEPT !.status = 200,
                          !.wisdom = SeqMap(WisdomOf, paginated_wisdom),
                          !.total = Len(filtered),
                          !.page = page,
                          !.per_page = per_page]

\* PageOf with the length of the page as the total
PageOf_PageTotal(filtered, page, per_page) ==
    LET start_idx == (page - 1) * per_page
        end_idx == start_idx + per_page
        paginated_wisdom == PySlice(filtered, start_idx, end_idx)
    IN [NoResponse EXCEPT !.status = 200,
                          !.wisdom = SeqMap(WisdomOf, paginated_wisdom),
                          !.total = Len(paginated_wisdom),
                          !.page = page,
                          !.per_page = per_page]

\* main.py:490-500 and 520-530, the page of a filtered list
PageOf(filtered, page, per_page) ==
    LET start_idx == (page - 1) * per_page
        end_idx == start_idx + per_page
        paginated_wisdom == PySlice(filtered, start_idx, end_idx)
    IN IF \E w \in Range(paginated_wisdom) : Raises(w)
       THEN ServerError
       ELSE [NoResponse EXCEPT !.status = 200,
                               !.wisdom = SeqMap(WisdomOf, paginated_wisdom),
                               !.total = Len(filtered),
                               !.page = page,
                               !.per_page = per_page]

\* CategoryIs as a substring test, like the author and source filters
CategoryIs_Substring(category, w) == Contains(Lower(category), Lower(w.category))

CategoryIs(category, w) == Lower(w.category) = Lower(category)
AuthorHas(author, w) == Contains(Lower(author), Lower(w.author))
SourceHas(src, w) == Contains(Lower(src), Lower(w.source))

\* main.py:478-488, the three filters of get_wisdom in the order of the code
FilterWisdom(data, category, author, src) ==
    LET byCategory == IF Truthy(category)
                      THEN SelectSeq(data, LAMBDA w : CategoryIs(category[1], w))
                      ELSE data
        byAuthor == IF Truthy(author)
                    THEN SelectSeq(byCategory, LAMBDA w : AuthorHas(author[1], w))
                    ELSE byCategory
    IN IF Truthy(src)
       THEN SelectSeq(byAuthor, LAMBDA w : SourceHas(src[1], w))
       ELSE byAuthor

\* SearchHit with the category searched too
SearchHit_WithCategory(q, w) ==
    LET search_term == Lower(q)
    IN \/ Contains(search_term, Lower(w.text))
       \/ Contains(search_term, Lower(w.author))
       \/ Contains(search_term, Lower(w.source))
       \/ Contains(search_term, Lower(w.category))

\* main.py:511-518, the test of search_wisdom on one record
SearchHit(q, w) ==
    LET search_term == Lower(q)
    IN \/ Contains(search_term, Lower(w.text))
       \/ Contains(search_term, Lower(w.author))
       \/ Contains(search_term, Lower(w.source))

SearchWisdom(data, q) == SelectSeq(data, LAMBDA w : SearchHit(q, w))

\* main.py:554, next((w for w in wisdom_data if w["id"] == wisdom_id), None):
\* the first record at which the generator stops, because it carries the id
\* or because w["id"] raises KeyError on it
FirstWithId(data, wisdom_id) ==
    LET stops == {i \in 1..Len(data) :
                     "id" \notin DOMAIN data[i] \/ data[i].id = wisdom_id}
    IN IF stops = {} THEN <<>>
       ELSE <<data[CHOOSE i \in stops : \A j \in stops : i <= j]>>

----------------------------------------------------------------------------
(***************************************************************************)
(* Requests and routes (main.py:93-563).                                   *)
(***************************************************************************)
Clients == {"A", "B"}

Routes ==
    {"landing_page", "get_api_info", "get_random_wisdom", "get_wisdom",
     "search_wisdom", "get_categories", "get_authors", "get_sources",
     "get_wisdom_by_id", "health_check"}

NoId == 0 - 1
IdArgs == 0..3

Request(c, r, i, pg, pp, cat, au, src, q) ==
    [client |-> c, route |-> r, wisdom_id |-> i, page |-> pg, per_page |-> pp,
     category |-> cat, author |-> au, source |-> src, q |-> q]

\* a request without query parameters
Plain(c, r) == Request(c, r, NoId, None, None, None, None, None, None)

\* the URL path of a request (the query string is not part of it)
Path(req) ==
    CASE req.route = "landing_page" -> "/"
      [] req.route = "get_api_info" -> "/info"
      [] req.route = "get_random_wisdom" -> "/wisdom/random"
      [] req.route = "get_wisdom" -> "/wisdom"
      [] req.route = "search_wisdom" -> "/wisdom/search"
      [] req.route = "get_categories" -> "/wisdom/categories"
      [] req.route = "get_authors" -> "/wisdom/authors"
      [] req.route = "get_sources" -> "/wisdom/sources"
      [] req.route = "health_check" -> "/health"
      [] req.route = "get_wisdom_by_id" /\ req.wisdom_id = 0 -> "/wisdom/0"
      [] req.route = "get_wisdom_by_id" /\ req.wisdom_id = 1 -> "/wisdom/1"
      [] req.route = "get_wisdom_by_id" /\ req.wisdom_id = 2 -> "/wisdom/2"
      [] OTHER -> "/wisdom/3"

Paths ==
    {"/", "/info", "/wisdom/random", "/wisdom", "/wisdom/search",
     "/wisdom/categories", "/wisdom/authors", "/wisdom/sources", "/health",
     "/wisdom/0", "/wisdom/1", "/wisdom/2", "/wisdom/3"}

\* the argument of @limiter.limit on each handler
LimitOf(route) ==
    CASE route = "landing_page" -> LimitLanding
      [] route = "get_api_info" -> LimitInfo
      [] route = "get_random_wisdom" -> LimitRandom
      [] route = "get_wisdom" -> LimitListing
      [] route = "search_wisdom" -> LimitSearch
      [] route = "get_categories" -> LimitCategories
      [] route = "get_authors" -> LimitAuthors
      [] route = "get_sources" -> LimitSources
      [] route = "get_wisdom_by_id" -> LimitById
      [] OTHER -> LimitHealth

\* the groups under which the landing page and /health publish the limits
Classes == {"landing", "metadata", "random", "listing", "search", "health"}

ClassOf(route) ==
    CASE route = "landing_page" -> "landing"
      [] route \in {"get_api_info", "get_categories", "get_authors", "get_sources"}
            -> "metadata"
      [] route \in {"get_random_wisdom", "get_wisdom_by_id"} -> "random"
      [] route = "get_wisdom" -> "listing"
      [] route = "search_wisdom" -> "search"
      [] OTHER -> "health"

ClassLimit(class) ==
    CASE class = "landing" -> LimitLanding
      [] class = "metadata" -> LimitCategories
      [] class = "random" -> LimitRandom
      [] class = "listing" -> LimitListing
      [] class = "search" -> LimitSearch
      [] OTHER -> LimitHealth

ArgOr(opt, default) == IF opt = None THEN default ELSE opt[1]

\* the Query(...) declarations of get_wisdom and search_wisdom, which FastAPI
\* checks before it calls the decorated handler
ValidPage(req) == req.page = None \/ req.page[1] >= 1

\* ValidPerPage with the upper bound left out of the range
ValidPerPage_Exclusive(req, most) ==
    req.per_page = None \/ (req.per_page[1] >= 1 /\ req.per_page[1] < most)

ValidPerPage(req, most) ==
    req.per_page = None \/ (req.per_page[1] >= 1 /\ req.per_page[1] <= most)

Valid(req) ==
    CASE req.route = "get_wisdom" ->
            ValidPage(req) /\ ValidPerPage(req, MaxPerPageList)
      [] req.route = "search_wisdom" ->
            req.q # None /\ ValidPage(req) /\ ValidPerPage(req, MaxPerPageSearch)
      [] OTHER -> TRUE

----------------------------------------------------------------------------
(***************************************************************************)
(* The limiter (main.py:41): slowapi's Limiter with its defaults, that is  *)
(* the fixed-window strategy over in-memory storage.  @limiter.limit gives *)
(* each decorated route a limit of its own: one counter per                *)
(* (key_func(request), request path).  The counter is read, incremented    *)
(* and compared in one call made before the handler is awaited.            *)
(***************************************************************************)
Keys == Clients \X Paths

\* LimiterKey with a key function that returns one address for every caller
LimiterKey_OneAddress(req) == <<"A", Path(req)>>

\* key_func=get_remote_address, and the request path as the scope
LimiterKey(req) == <<req.client, Path(req)>>

\* the storage drops a counter whose window has ended
Expired(expiry, t) == expiry <= t

\* the counter after this hit
Incr(count, expiry, t) == IF Expired(expiry, t) THEN 1 ELSE count + 1

\* WindowEnd with every hit moving the window end (an elastic expiry)
WindowEnd_Elastic(count, expiry, t) == t + WindowSeconds

\* the window end after this hit: set by the first hit of a window only
WindowEnd(count, expiry, t) ==
    IF Incr(count, expiry, t) = 1 THEN t + WindowSeconds ELSE expiry

\* the request passes when the counter, this hit included, is within the limit
Admits(count, limit) == count <= limit

----------------------------------------------------------------------------
(***************************************************************************)
(* The handler bodies: the responses a handler can return for a request,   *)
(* over record list data and the derived sets cats, auths, srcs.           *)
(***************************************************************************)
\* main.py:446-455
get_api_info(data, cats, auths) ==
    {[NoResponse EXCEPT !.status = 200, !.total = Len(data),
                        !.categories = cats, !.authors = auths,
                        !.detail = "Tibetan Wisdom API"]}

\* get_random_wisdom without the test for the empty list
get_random_wisdom_NoGuard(data) ==
    IF data = <<>>
    THEN {HttpError(500, "Internal Server Error")}
    ELSE {[NoResponse EXCEPT !.status = 200, !.wisdom = <<WisdomOf(data[i])>>] :
              i \in 1..Len(data)}

\* main.py:459-465; random.choice returns any element of the list
get_random_wisdom(data) ==
    IF data = <<>>
    THEN {HttpError(404, "No wisdom available")}
    ELSE {IF Raises(data[i])
          THEN ServerError
          ELSE [NoResponse EXCEPT !.status = 200, !.wisdom = <<WisdomOf(data[i])>>] :
              i \in 1..Len(data)}

\* main.py:469-500
get_wisdom(data, req) ==
    {PageOf(FilterWisdom(data, req.category, req.author, req.source),
            ArgOr(req.page, DefaultPage), ArgOr(req.per_page, DefaultPerPage))}

\* main.py:504-530; wisdom["text"] raises KeyError on a record without text
search_wisdom(data, req) ==
    IF \E w \in Range(data) : "text" \notin DOMAIN w
    THEN {ServerError}
    ELSE {PageOf(SearchWisdom(data, req.q[1]),
                 ArgOr(req.page, DefaultPage), ArgOr(req.per_page, DefaultPerPage))}

\* main.py:534-548: get_categories, get_authors, get_sources
get_names(S) == {[NoResponse EXCEPT !.status = 200, !.names = Sorted(S)]}

\* get_wisdom_by_id testing the id, not the record, for falsity
get_wisdom_by_id_FalsyId(data, wisdom_id) ==
    LET wisdom == FirstWithId(data, wisdom_id)
    IN IF wisdom = <<>> \/ wisdom_id = 0
       THEN {HttpError(404, "Wisdom not found")}
       ELSE {[NoResponse EXCEPT !.status = 200, !.wisdom = <<WisdomOf(wisdom[1])>>]}

\* main.py:552-559
get_wisdom_by_id(data, wisdom_id) ==
    LET wisdom == FirstWithId(data, wisdom_id)
    IN IF wisdom = <<>>
       THEN {HttpError(404, "Wisdom not found")}
       ELSE IF Raises(wisdom[1])
       THEN {ServerError}
       ELSE {[NoResponse EXCEPT !.status = 200, !.wisdom = <<WisdomOf(wisdom[1])>>]}

\* main.py:563-578
health_check(data, cats, auths) ==
    {[NoResponse EXCEPT !.status = 200, !.detail = "healthy",
                        !.total = Len(data),
                        !.available_categories = Cardinality(cats),
                        !.available_authors = Cardinality(auths)]}

\* main.py:95-442
landing_page == {[NoResponse EXCEPT !.status = 200, !.detail = "html"]}

Handler(req, data, cats, auths, srcs) ==
    CASE req.route = "landing_page" -> landing_page
      [] req.route = "get_api_info" -> get_api_info(data, cats, auths)
      [] req.route = "get_random_wisdom" -> get_random_wisdom(data)
      [] req.route = "get_wisdom" -> get_wisdom(data, req)
      [] req.route = "search_wisdom" -> search_wisdom(data, req)
      [] req.route = "get_categories" -> get_names(cats)
      [] req.route = "get_authors" -> get_names(auths)
      [] req.route = "get_sources" -> get_names(srcs)
      [] req.route = "get_wisdom_by_id" -> get_wisdom_by_id(data, req.wisdom_id)
      [] OTHER -> health_check(data, cats, auths)

\* rate_limit_handler naming the same limit whatever route was called
rate_limit_handler_OneLimit(limit) ==
    [NoResponse EXCEPT !.status = 429, !.detail = "Rate limit exceeded",
                       !.limit = LimitLanding,
                       !.retry_after = "Please wait before making more requests",
                       !.retry_after_header = RetryAfter]

\* DataAfter with the filtering done on the module's list itself
DataAfter_InPlace(req, data) ==
    CASE req.route = "get_wisdom" ->
            FilterWisdom(data, req.category, req.author, req.source)
      [] req.route = "search_wisdom" -> SearchWisdom(data, req.q[1])
      [] OTHER -> data

\* main.py:478-493 and 511-523: wisdom_data after a handler has run.  The
\* handlers work on a copy (wisdom_data.copy()) and on lists they build and
\* bind to the local name filtered_wisdom; no handler assigns to or changes
\* the module's list.
DataAfter(req, data) == data

\* main.py:56-67, the response to RateLimitExceeded: the body fields error
\* (detail), message (which quotes exc.detail, the limit of the route) and
\* retry_after, and the header Retry-After
rate_limit_handler(limit) ==
    [NoResponse EXCEPT !.status = 429, !.detail = "Rate limit exceeded",
                       !.limit = limit,
                       !.retry_after = "Please wait before making more requests",
                       !.retry_after_header = RetryAfter]

\* FastAPI's answer to a request that fails the Query(...) declarations
ValidationError == HttpError(422, "validation")

----------------------------------------------------------------------------
(***************************************************************************)
(* The requests the clients send.                                          *)
(***************************************************************************)
sa == <<"a">>
sC == <<"C">>
sAc == <<"A", "c">>
sB == <<"B">>
sc == <<"c">>
sAB == <<"A", "B">>

CategoryArgs == {None, Some(<<>>), Some(sa), Some(sC), Some(sAc)}
AuthorArgs == {None, Some(<<>>), Some(sa), Some(sB)}
SourceArgs == {None, Some(<<>>), Some(sa), Some(sc)}
QueryArgs == {None, Some(<<>>), Some(sa), Some(sC), Some(sAB)}

PageArgs == {Some(p) : p \in (0..MaxPage) \cup {BigPage}}
PerPageArgs(most) == {Some(n) : n \in (0..MaxPerPage) \cup {most, most + 1}}

ListRequests ==
    {Request("A", "get_wisdom", NoId, pg, pp, cat, au, src, None) :
        pg \in PageArgs, pp \in PerPageArgs(MaxPerPageList),
        cat \in CategoryArgs, au \in AuthorArgs, src \in SourceArgs}
    \cup {Request("A", "get_wisdom", NoId, None, None, cat, None, None, None) :
            cat \in CategoryArgs}

SearchRequests ==
    {Request("A", "search_wisdom", NoId, pg, pp, None, None, None, q) :
        pg \in PageArgs \cup {None}, pp \in PerPageArgs(MaxPerPageSearch) \cup {None},
        q \in QueryArgs}

IdRequests(C) ==
    {Request(c, "get_wisdom_by_id", i, None, None, None, None, None, None) :
        c \in C, i \in IdArgs}

PlainRequests(C) ==
    {Plain(c, r) : c \in C,
                   r \in Routes \ {"get_wisdom_by_id", "search_wisdom"}}

\* every kind of request, from one client
QueryRequests ==
    ListRequests \cup SearchRequests \cup IdRequests({"A"}) \cup PlainRequests({"A"})

\* requests with default parameters, from every client
LimitRequests ==
    PlainRequests(Clients) \cup IdRequests(Clients)
        \cup {Request(c, "search_wisdom", NoId, None, None, None, None, None, Some(sAB)) :
                c \in Clients}

\* The (address, path) pairs one run sends requests to: any one pair of
\* address A, or two addresses on one route, or one address on routes of two
\* classes.
Mixes ==
    {{<<"A", p>>} : p \in Paths \ {"/wisdom/1", "/wisdom/2"}}
        \cup {{<<"A", "/health">>, <<"B", "/health">>},
              {<<"A", "/health">>, <<"A", "/wisdom/sources">>}}

\* one address on two routes of one class
ClassMixes == {{<<"A", "/info">>, <<"A", "/wisdom/categories">>}}

----------------------------------------------------------------------------
(***************************************************************************)
(* The state machine.                                                      *)
(***************************************************************************)
\* a request in flight: "received", then "admitted" by the limiter, then "done"
Arrived(req) == [stage |-> "received", req |-> req, resp |-> NoResponse]

\* the requests in flight with r replaced by r2
Becomes(r, r2) == (inflight (-) SetToBag({r})) (+) SetToBag({r2})

NotSeen == [first |-> 0 - 1, hits |-> 0, admitted |-> 0]

InitWith(S, M) ==
    /\ proc = "boot"
    /\ source \in S
    /\ wisdom_data = <<>>
    /\ categories = {}
    /\ authors = {}
    /\ sources = {}
    /\ storage = [k \in Keys |-> 0]
    /\ expirations = [k \in Keys |-> 0]
    /\ now = 0
    /\ inflight = EmptyBag
    /\ mix \in M
    /\ seen = [ck \in Clients \X Classes |-> NotSeen]

Init == InitWith(FewSources, Mixes)

InitQuery == InitWith(AllSources, {{"A"} \X Paths})

\* main.py:78-91, run once when the module is imported
Load ==
    /\ proc = "boot"
    /\ IF LoadCrashes(source)
       THEN /\ proc' = "crashed"
            /\ UNCHANGED <<wisdom_data, categories, authors, sources>>
       ELSE /\ proc' = "serving"
            /\ wisdom_data' = LoadedData(source)
            /\ categories' = {w.category : w \in Range(LoadedData(source))}
            /\ authors' = {w.author : w \in Range(LoadedData(source))}
            /\ sources' = {w.source : w \in Range(LoadedData(source))}
    /\ UNCHANGED <<source, storage, expirations, now, inflight, mix, seen>>

\* half a window passes
Tick ==
    /\ proc = "serving"
    /\ now < MaxTicks * (WindowSeconds \div 2)
    /\ now' = now + (WindowSeconds \div 2)
    /\ UNCHANGED <<proc, source, wisdom_data, categories, authors, sources,
                   storage, expirations, inflight, mix, seen>>

\* a request of R arrives while fewer than most requests are in flight
Receive(R, most) ==
    /\ proc = "serving"
    /\ BagCardinality(inflight) < most
    /\ \E req \in R :
          /\ LimiterKey(req) \in mix
          /\ storage[LimiterKey(req)] < LimitOf(req.route) + MaxOver
          /\ inflight' = inflight (+) SetToBag({Arrived(req)})
    /\ UNCHANGED <<proc, source, wisdom_data, categories, authors, sources,
                   storage, expirations, now, mix, seen>>

\* The window of a class as the published limits describe it: it starts at
\* the first decision the limiter takes for the class and lasts WindowSeconds;
\* the first decision after its end starts the next one.
Observe(sn, t, ok) ==
    IF sn.first < 0 \/ t >= sn.first + WindowSeconds
    THEN [first |-> t, hits |-> 1, admitted |-> IF ok THEN 1 ELSE 0]
    ELSE [sn EXCEPT !.hits = @ + 1, !.admitted = IF ok THEN @ + 1 ELSE @]

\* FastAPI validates the query parameters, then calls the handler as wrapped
\* by @limiter.limit, which consults the limiter before the handler body
Dispatch(r) ==
    LET req == r.req
        key == LimiterKey(req)
        ck == <<req.client, ClassOf(req.route)>>
        count == Incr(storage[key], expirations[key], now)
        ok == Admits(count, LimitOf(req.route))
    IN /\ r.stage = "received"
       /\ IF ~ Valid(req)
          THEN /\ inflight' = Becomes(r, [r EXCEPT !.stage = "done",
                                                   !.resp = ValidationError])
               /\ UNCHANGED <<storage, expirations, seen>>
          ELSE /\ storage' = [storage EXCEPT ![key] = count]
               /\ expirations' =
                      [expirations EXCEPT
                          ![key] = WindowEnd(storage[key], expirations[key], now)]
               /\ seen' = [seen EXCEPT ![ck] = Observe(seen[ck], now, ok)]
               /\ inflight' =
                      Becomes(r, IF ok
                                 THEN [r EXCEPT !.stage = "admitted"]
                                 ELSE [r EXCEPT
                                          !.stage = "done",
                                          !.resp = rate_limit_handler(LimitOf(req.route))])
       /\ UNCHANGED <<proc, source, wisdom_data, categories, authors, sources,
                      now, mix>>

\* the handler body runs and its result becomes the response
Handle(r) ==
    /\ r.stage = "admitted"
    /\ \E resp \in Handler(r.req, wisdom_data, categories, authors, sources) :
           inflight' = Becomes(r, [r EXCEPT !.stage = "done", !.resp = resp])
    /\ wisdom_data' = DataAfter(r.req, wisdom_data)
    /\ UNCHANGED <<proc, source, categories, authors, sources,
                   storage, expirations, now, mix, seen>>

\* the response is sent
Close(r) ==
    /\ r.stage = "done"
    /\ inflight' = inflight (-) SetToBag({r})
    /\ UNCHANGED <<proc, source, wisdom_data, categories, authors, sources,
                   storage, expirations, now, mix, seen>>

Dispatching == \E r \in BagToSet(inflight) : Dispatch(r)
Handling == \E r \in BagToSet(inflight) : Handle(r)
Closing == \E r \in BagToSet(inflight) : Close(r)

Next ==
    \/ Load
    \/ Tick
    \/ Receive(LimitRequests, MaxInflight)
    \/ Dispatching
    \/ Handling
    \/ Closing

Spec == Init /\ [][Next]_vars

InitClass == InitWith({Document(DemoStore)}, ClassMixes)

\* the same steps, with the requests of one address spread over two routes
\* of one class
SpecClass == InitClass /\ [][Next]_vars

\* no limiter counter has been touched since the start
Fresh == \A k \in Keys : storage[k] = 0

\* One connection, and every kind of request as the first request a started
\* process admits.
NextQuery ==
    \/ Load
    \/ Fresh /\ Receive(QueryRequests, 1)
    \/ Dispatching
    \/ Handling
    \/ Closing

SpecQuery == InitQuery /\ [][NextQuery]_vars

InitMalformed == InitWith(MalformedSources, {{"A"} \X Paths})

\* the same steps on data files with a record that lacks a field
SpecMalformed == InitMalformed /\ [][NextQuery]_vars

----------------------------------------------------------------------------
(***************************************************************************)
(* Properties of the query engine, checked under SpecQuery.                *)
(***************************************************************************)
\* the requests whose handler has returned
Answered(route) ==
    {s \in BagToSet(inflight) : /\ s.stage = "done"
                                /\ s.req.route = route
                                /\ s.resp.status \notin {422, 429}}

PageNo(req) == ArgOr(req.page, DefaultPage)
PerPage(req) == ArgOr(req.per_page, DefaultPerPage)

\* the filtered sequence of a list or search request
FilteredOf(req) ==
    IF req.route = "get_wisdom"
    THEN FilterWisdom(wisdom_data, req.category, req.author, req.source)
    ELSE SearchWisdom(wisdom_data, req.q[1])

\* q is data with some elements left out, the others in their order
RECURSIVE IsSubsequence(_, _)
IsSubsequence(q, data) ==
    IF q = <<>> THEN TRUE
    ELSE IF data = <<>> THEN FALSE
    ELSE IF q[1] = data[1] THEN IsSubsequence(Tail(q), Tail(data))
    ELSE IsSubsequence(q, Tail(data))

PageIsSlice(s) ==
    LET req == s.req
        resp == s.resp
        filtered == FilteredOf(req)
        first == (PageNo(req) - 1) * PerPage(req)
    IN /\ resp.status = 200
       /\ IsSubsequence(filtered, wisdom_data)
       /\ Len(resp.wisdom) = Min(PerPage(req), Max(0, Len(filtered) - first))
       /\ \A i \in 1..Len(resp.wisdom) :
              resp.wisdom[i] = WisdomOf(filtered[first + i])

\* C1: list and search answer every valid request with status 200 and with
\* exactly the elements at positions [(page-1)*per_page, (page-1)*per_page +
\* per_page) of the filtered sequence, which keeps the load order; so the page
\* has min(per_page, max(0, filtered_total - (page-1)*per_page)) elements and
\* a page past the end is empty.
C1_PageIsSlice ==
    \A s \in Answered("get_wisdom") \cup Answered("search_wisdom") : PageIsSlice(s)

\* a second page that is cut short by the end of the filtered sequence
C1_Witness ==
    \E s \in Answered("get_wisdom") :
        /\ s.req.page = Some(2)
        /\ s.req.per_page = Some(2)
        /\ s.resp.total = 3
        /\ Len(s.resp.wisdom) = 1
        /\ s.resp.wisdom[1] = WisdomOf(wisdom_data[3])

\* what a record must satisfy to pass the filters of a list request: every
\* filter that is given (and not empty) holds
PassesFilters(req, w) ==
    /\ Truthy(req.category) => Lower(w.category) = Lower(req.category[1])
    /\ Truthy(req.author) => Contains(Lower(req.author[1]), Lower(w.author))
    /\ Truthy(req.source) => Contains(Lower(req.source[1]), Lower(w.source))

\* what a record must satisfy to match a search
PassesSearch(req, w) ==
    \E f \in {"text", "author", "source"} : Contains(Lower(req.q[1]), Lower(w[f]))

Passes(req, w) ==
    IF req.route = "get_wisdom" THEN PassesFilters(req, w) ELSE PassesSearch(req, w)

Matching(req) == {i \in 1..Len(wisdom_data) : Passes(req, wisdom_data[i])}

\* C2: the total of list and of search is the number of records that match
\* the filters or the query, whatever page and per_page are, also when the
\* page returned is empty.
C2_TotalIsFilteredCount ==
    \A s \in Answered("get_wisdom") \cup Answered("search_wisdom") :
        s.resp.total = Cardinality(Matching(s.req))

\* an empty page far past the end, whose total is neither 0 nor the store size
C2_Witness ==
    \E s \in Answered("get_wisdom") :
        /\ s.req.page = Some(BigPage)
        /\ s.resp.wisdom = <<>>
        /\ s.resp.total > 0
        /\ s.resp.total < Len(wisdom_data)

\* the whole filtered sequence is on the page
ShowsAll(s) ==
    /\ PageNo(s.req) = 1
    /\ PerPage(s.req) >= Len(wisdom_data)

\* the records of the store that pass, in load order
Passing(req) == SelectSeq(wisdom_data, LAMBDA w : Passes(req, w))

\* C3: the filtered sequence of list holds exactly the records that satisfy
\* every given filter: category by case-insensitive equality, author and
\* source by case-insensitive substring.  A filter given as the empty string
\* counts as not given.
C3_FiltersAreConjunction ==
    \A s \in Answered("get_wisdom") :
        /\ s.resp.total = Cardinality(Matching(s.req))
        /\ ShowsAll(s) =>
              s.resp.wisdom = SeqMap(WisdomOf, Passing(s.req))

\* category "Ac" selects the record of category "aC" and author "a" keeps it,
\* while the records of category "C" and "c" are left out
C3_Witness ==
    \E s \in Answered("get_wisdom") :
        /\ ShowsAll(s)
        /\ s.req.category = Some(sAc)
        /\ s.req.author = Some(sa)
        /\ s.resp.wisdom = <<WisdomOf(R1)>>
        /\ Len(wisdom_data) = 3

\* C4: search returns exactly the records whose lowercased text, author or
\* source contains the lowercased query; the category is not searched; the
\* empty query matches every record.
C4_SearchFields ==
    \A s \in Answered("search_wisdom") :
        /\ s.resp.total = Cardinality(Matching(s.req))
        /\ ShowsAll(s) =>
              s.resp.wisdom = SeqMap(WisdomOf, Passing(s.req))
        /\ s.req.q = Some(<<>>) =>
              s.resp.total = Len(wisdom_data)

\* query "C" finds R3 by its text and not R0, which has "c" as category only
C4_Witness ==
    \E s \in Answered("search_wisdom") :
        /\ ShowsAll(s)
        /\ s.req.q = Some(sC)
        /\ wisdom_data = <<R0, R3>>
        /\ s.resp.wisdom = <<WisdomOf(R3)>>

\* C5: get_wisdom_by_id answers 404 when no record carries the id, and
\* otherwise 200 with a stored record of that id, its six fields unchanged.
C5_GetById ==
    \A s \in Answered("get_wisdom_by_id") :
        LET wisdom_id == s.req.wisdom_id
            resp == s.resp
            carriers == {i \in 1..Len(wisdom_data) : wisdom_data[i].id = wisdom_id}
        IN IF carriers = {}
           THEN resp.status = 404
           ELSE /\ resp.status = 200
                /\ Len(resp.wisdom) = 1
                /\ \E i \in carriers :
                       \A f \in Fields : resp.wisdom[1][f] = wisdom_data[i][f]

\* the record of id 0 is found
C5_Witness ==
    \E s \in Answered("get_wisdom_by_id") :
        /\ s.req.wisdom_id = 0
        /\ s.resp.status = 200
        /\ s.resp.wisdom = <<WisdomOf(R0)>>

\* the store and its derived sets are what the import made of the data file
StoreAsLoaded ==
    /\ wisdom_data = LoadedData(source)
    /\ categories = {w.category : w \in Range(wisdom_data)}
    /\ authors = {w.author : w \in Range(wisdom_data)}
    /\ sources = {w.source : w \in Range(wisdom_data)}

\* C6: get_random_wisdom answers 404 exactly when the store is empty and
\* otherwise returns a record of the store; the call leaves the store as it
\* was loaded.
C6_Random ==
    \A s \in Answered("get_random_wisdom") :
        LET resp == s.resp
        IN /\ resp.status = 404 <=> wisdom_data = <<>>
           /\ resp.status # 404 =>
                 /\ resp.status = 200
                 /\ \E w \in Range(wisdom_data) : resp.wisdom = <<WisdomOf(w)>>
           /\ StoreAsLoaded

\* the last of three records is drawn
C6_Witness ==
    \E s \in Answered("get_random_wisdom") :
        /\ Len(wisdom_data) = 3
        /\ s.resp.wisdom = <<WisdomOf(wisdom_data[3])>>
        /\ wisdom_data[3] # wisdom_data[1]

----------------------------------------------------------------------------
(***************************************************************************)
(* Properties of the rate limiter, checked under Spec and SpecClass.       *)
(***************************************************************************)
ClientClasses == Clients \X Classes

\* the classes served by one route with one path
OnePathClasses == {"landing", "listing", "search", "health"}

\* in the current window of the class the first N decisions admitted and all
\* later ones rejected
FirstNAdmitted(ck) == seen[ck].admitted = Min(seen[ck].hits, ClassLimit(ck[2]))

\* C7: for one address and one endpoint class with limit N, the first N
\* requests of a window are admitted, every further request made less than
\* 60 seconds after the window's start is rejected, and the first request
\* made 60 seconds or more after that start is admitted.
C7_ClassWindow == \A ck \in ClientClasses : FirstNAdmitted(ck)

\* a counter that holds hits of a window that has not ended
Live(k) == storage[k] > 0 /\ ~ Expired(expirations[k], now)

PathsOf(class) ==
    {Path(req) : req \in {r \in LimitRequests : ClassOf(r.route) = class}}

\* C8: the requests of one address to the routes of one class count against
\* one counter: every live counter of a route of the class holds all the
\* decisions of the class's window.
C8_OneCounterPerClass ==
    \A ck \in ClientClasses :
        \A p \in PathsOf(ck[2]) :
            Live(<<ck[1], p>>) => storage[<<ck[1], p>>] = seen[ck].hits

RECURSIVE Copies(_)
Copies(S) ==
    IF S = {} THEN 0
    ELSE LET r == CHOOSE x \in S : TRUE
         IN CopiesIn(r, inflight) + Copies(S \ {r})

\* the number of requests of an address to a class that are between the
\* limiter's decision and the handler's return
PastLimiter(c, class) ==
    Copies({r \in BagToSet(inflight) : /\ r.stage = "admitted"
                                       /\ r.req.client = c
                                       /\ ClassOf(r.req.route) = class})

\* C9: however the requests of one address to one class interleave, no more
\* than N of them are admitted in one window, and two that are in flight
\* together are not both admitted when one slot was left.
C9_AtMostNAdmitted ==
    \A ck \in ClientClasses :
        /\ seen[ck].admitted <= ClassLimit(ck[2])
        /\ PastLimiter(ck[1], ck[2]) = MaxInflight =>
              seen[ck].hits <= ClassLimit(ck[2])

\* the limiter decides request r in this step
Deciding(r) == r.stage = "received" /\ CopiesIn(r, inflight') < CopiesIn(r, inflight)

\* C10: the limiter's decisions for one address are those it takes when that
\* address is alone (the first N of each window admitted, the others
\* rejected, on every class of one path), and a decision for one address
\* changes no counter and no window end of another address.
C10_AddressesApart ==
    /\ [](\A ck \in Clients \X OnePathClasses : FirstNAdmitted(ck))
    /\ [][\A r \in BagToSet(inflight) : Deciding(r) =>
              \A k \in Keys : k[1] # r.req.client =>
                  /\ storage'[k] = storage[k]
                  /\ expirations'[k] = expirations[k]]_vars

\* A has used up /health and B is admitted there in the same minute
C10_Witness ==
    /\ storage[<<"A", "/health">>] > LimitHealth
    /\ Live(<<"A", "/health">>)
    /\ Live(<<"B", "/health">>)
    /\ expirations[<<"B", "/health">>] = expirations[<<"A", "/health">>]
    /\ \E r \in BagToSet(inflight) : /\ r.req = Plain("B", "health_check")
                                      /\ r.stage = "done"
                                      /\ r.resp.status = 200

----------------------------------------------------------------------------
(***************************************************************************)
(* Properties of the request pipeline.                                     *)
(***************************************************************************)
\* in this step the limiter counts request r and finds its counter over the
\* limit of the route
Rejecting(r) ==
    LET key == LimiterKey(r.req)
    IN /\ Deciding(r)
       /\ storage'[key] = storage[key] + 1
       /\ storage'[key] > LimitOf(r.req.route)

\* the response the request of r has once this step is taken
AnswerTo(r) ==
    {s.resp : s \in {x \in BagToSet(inflight') :
                        /\ x.req = r.req
                        /\ x.stage = "done"
                        /\ CopiesIn(x, inflight') > CopiesIn(x, inflight)}}

\* C11: every request the limiter rejects, on every route, is answered at
\* once with status 429, a body with error, message and retry_after whose
\* message names the limit configured for that route, and the header
\* Retry-After: 60; it is never answered 200, 404 or 422, and every 429 in
\* flight has this shape.
C11_Rejected429 ==
    /\ [][\A r \in BagToSet(inflight) : Rejecting(r) =>
              /\ AnswerTo(r) # {}
              /\ \A resp \in AnswerTo(r) :
                     /\ resp.status = 429
                     /\ resp.detail # ""
                     /\ resp.limit = LimitOf(r.req.route)
                     /\ resp.retry_after # ""
                     /\ resp.retry_after_header = 60]_vars
    /\ [](\A s \in BagToSet(inflight) :
              s.stage = "done" /\ s.resp.status = 429 =>
                  /\ s.resp.limit = LimitOf(s.req.route)
                  /\ s.resp.retry_after_header = 60)

\* the sixteenth search of a minute is answered 429 with the limit of search
C11_Witness ==
    \E s \in BagToSet(inflight) :
        /\ s.stage = "done"
        /\ s.req.route = "search_wisdom"
        /\ s.resp.status = 429
        /\ s.resp.limit = LimitSearch
        /\ storage[LimiterKey(s.req)] = LimitSearch + 1

\* in this step the counter of the route of r takes one more hit, in its
\* current window or as the first of a new one
Counted(r) ==
    LET key == LimiterKey(r.req)
    IN \/ storage'[key] = storage[key] + 1
       \/ expirations[key] <= now /\ storage'[key] = 1

\* C12: the limiter sees every request before its parameters are validated
\* and before the handler runs: the step that takes a request up counts it
\* against its address's window, also when the request then fails validation
\* or ends in 404; a request is answered 422 only once it has been counted,
\* and a rejected request is answered without a handler having run.
C12_LimiterFirst ==
    [][\A r \in BagToSet(inflight) : Deciding(r) =>
          /\ Counted(r)
          /\ \A resp \in AnswerTo(r) : resp.status = 429]_vars

\* the requests that are not waiting for the limiter any more
Taken == {s \in BagToSet(inflight) : s.stage # "received"}

\* C13: a data file that is absent or cannot be parsed never ends the
\* start of the process: the store is then empty, with empty category, author
\* and source sets, list and search answer empty pages with total 0, and
\* random and get answer 404.
C13_SoftLoad ==
    source.kind \in {"absent", "unparsable"} =>
        /\ proc # "crashed"
        /\ proc = "serving" =>
              /\ wisdom_data = <<>>
              /\ categories = {} /\ authors = {} /\ sources = {}
        /\ \A s \in Answered("get_wisdom") \cup Answered("search_wisdom") :
              s.resp.status = 200 /\ s.resp.wisdom = <<>> /\ s.resp.total = 0
        /\ \A s \in Answered("get_random_wisdom") \cup Answered("get_wisdom_by_id") :
              s.resp.status = 404

\* the bounds the claim gives for the parameters of list and search
InBounds(req) ==
    LET page_ok == req.page = None \/ req.page[1] >= 1
        top == IF req.route = "get_wisdom" THEN 100 ELSE 50
        per_page_ok == req.per_page = None
                          \/ req.per_page[1] \in 1..top
    IN CASE req.route = "get_wisdom" -> page_ok /\ per_page_ok
         [] req.route = "search_wisdom" -> page_ok /\ per_page_ok /\ req.q # None
         [] OTHER -> TRUE

\* C14: a list or search request with page below 1, with per_page outside
\* 1..100 (list) or 1..50 (search), or a search without q, is answered with a
\* validation error and no handler runs on it, so nothing is filtered; every
\* request within these bounds, the boundary values included, passes
\* validation.
C14_Validation ==
    \A s \in Taken :
        /\ s.stage = "admitted" => InBounds(s.req)
        /\ s.stage = "done" =>
              /\ s.resp.status = 422 <=> ~ InBounds(s.req)
              /\ s.resp.status = 422 =>
                    s.resp.wisdom = <<>> /\ s.resp.total = 0

\* a search for 51 records a page is refused although the store has records
\* matching the query
C14_Witness ==
    \E s \in Taken :
        /\ s.req.route = "search_wisdom"
        /\ s.req.q = Some(sa)
        /\ s.req.page = Some(1)
        /\ s.req.per_page = Some(MaxPerPageSearch + 1)
        /\ s.resp.status = 422
        /\ SearchWisdom(wisdom_data, sa) # <<>>

\* C15: once the process serves, no step changes the record list or the
\* category, author and source sets, whatever requests are received, admitted,
\* rejected, handled and answered and however they interleave; they stay what
\* the load made of the data file, and requests change limiter state only.
C15_StoreNeverMutated ==
    /\ [][proc = "serving" =>
              /\ wisdom_data' = wisdom_data
              /\ categories' = categories
              /\ authors' = authors
              /\ sources' = sources]_vars
    /\ [](proc = "serving" => StoreAsLoaded)

\* a search that matched two of the three records has been answered, another
\* request of the same minute has been rejected, and the store has its three
\* records
C15_Witness ==
    /\ wisdom_data = DemoStore
    /\ \E s \in Taken :
           /\ s.req.route = "search_wisdom"
           /\ s.resp.status = 200
           /\ s.resp.total = 2
           /\ storage[LimiterKey(s.req)] > LimitSearch
    /\ \E s \in Taken : s.resp.status = 429

\* C16: a record of the data file that lacks one of the fields id, text,
\* author, source, category, language ends the start of the process, so a
\* serving process holds records with all six fields only and no request
\* fails in a handler.
C16_MalformedIsFatal ==
    /\ proc = "serving" => \A w \in Range(wisdom_data) : Fields \subseteq DOMAIN w
    /\ \A s \in Taken : s.resp.status # 500

\* C17: no two records of the store carry the same id, so a record returned
\* for an id is the only record of the store with that id.
C17_UniqueIds ==
    /\ \A i, j \in 1..Len(wisdom_data) :
           wisdom_data[i].id = wisdom_data[j].id => i = j
    /\ \A s \in Answered("get_wisdom_by_id") :
           s.resp.status = 200 =>
               Cardinality({i \in 1..Len(wisdom_data) :
                               wisdom_data[i].id = s.req.wisdom_id}) = 1

\* the request of r is let through to its handler in this step
Admitting(r) ==
    \E x \in BagToSet(inflight') :
        /\ x.req = r.req
        /\ x.stage = "admitted"
        /\ CopiesIn(x, inflight') > CopiesIn(x, inflight)

\* C18: a window starts at its first request and ends 60 seconds later: no
\* request made before the end moves the end, a rejected one included, and
\* the first request made 60 seconds or more after the start is admitted and
\* starts the next window, however many requests were rejected before.
C18_WindowFixed ==
    /\ [][\A r \in BagToSet(inflight) : Deciding(r) /\ Counted(r) =>
              LET key == LimiterKey(r.req)
              IN /\ Rejecting(r) => expirations'[key] = expirations[key]
                 /\ storage[key] > 0 /\ now < expirations[key] =>
                        expirations'[key] = expirations[key]
                 /\ storage[key] > 0 /\ now >= expirations[key] =>
                        /\ Admitting(r)
                        /\ storage'[key] = 1
                        /\ expirations'[key] = now + 60]_vars
    /\ [](\A ck \in Clients \X OnePathClasses :
              \A p \in PathsOf(ck[2]) :
                  Live(<<ck[1], p>>) =>
                      expirations[<<ck[1], p>>] = seen[ck].first + 60)

\* /health was used up in the window that started at 0 and a request was
\* rejected; 60 seconds after that start the next request is admitted as the
\* first of a new window
C18_Witness ==
    /\ now = WindowSeconds
    /\ storage[<<"A", "/health">>] = 1
    /\ expirations[<<"A", "/health">>] = now + WindowSeconds
    /\ \E s \in Taken : /\ s.req = Plain("A", "health_check")
                         /\ s.resp.status = 429
    /\ \E s \in Taken : /\ s.req = Plain("A", "health_check")
                         /\ s.stage = "admitted"

\* an argument given as the empty string, taken away
Dropped(opt) == IF opt = Some(<<>>) THEN None ELSE opt

\* the records that pass the filters of req that are given and not empty
Kept(req) ==
    LET cat == Dropped(req.category)
        au == Dropped(req.author)
        src == Dropped(req.source)
    IN SelectSeq(wisdom_data,
                 LAMBDA w :
                     /\ cat # None => Lower(w.category) = Lower(cat[1])
                     /\ au # None => Contains(Lower(au[1]), Lower(w.author))
                     /\ src # None => Contains(Lower(src[1]), Lower(w.source)))

\* C19: list answers a request with category="" (or author="", or
\* source="") as it answers the request without that filter: same total and
\* same page, for every store, page and per_page; the empty string is not
\* compared with the field.
C19_EmptyFilterIsAbsent ==
    \A s \in Answered("get_wisdom") :
        LET req == s.req
            first == (PageNo(req) - 1) * PerPage(req)
        IN Some(<<>>) \in {req.category, req.author, req.source} =>
              /\ s.resp.status = 200
              /\ s.resp.total = Len(Kept(req))
              /\ s.resp.wisdom =
                     SeqMap(WisdomOf, PySlice(Kept(req), first, first + PerPage(req)))

\* category="" with no other filter returns the three records of the store,
\* none of which has the empty category
C19_Witness ==
    \E s \in Answered("get_wisdom") :
        /\ s.req.category = Some(<<>>)
        /\ s.req.author = None
        /\ s.req.source = None
        /\ s.req.page = Some(1)
        /\ s.resp.total = 3
        /\ Len(s.resp.wisdom) = MaxPerPage
        /\ \A w \in Range(wisdom_data) : w.category # <<>>

====
